---- MODULE Spec2Model ----
(***************************************************************************)
(* ganttTable.js: renderGanttAsTables turns a list of labelled day         *)
(* intervals into one table per calendar month, one row per task that      *)
(* intersects the month and one cell per day.                              *)
(*                                                                         *)
(* A Date is modelled by its local calendar fields [y, mo, d, ms]: year,   *)
(* 0-based month, day of month and milliseconds since local midnight.      *)
(* Dates compare by time value (day number, then ms), as JavaScript does.  *)
(* Environment assumptions: years >= 100 (the Date constructor maps the    *)
(* years 0..99 to 1900..1999) and a local time zone in which every         *)
(* calendar day has a midnight.                                            *)
(***************************************************************************)
EXTENDS Integers, Sequences, FiniteSets, TLC

\* ---------------------------------------------------------------- bounds
MaxTasks == 2      \* longest task list the caller passes
MaxMounted == 3    \* calls are made while the container has fewer roots

\* ------------------------------------------------- the Date of the runtime
NaN == [y |-> 0, mo |-> 0, d |-> 0, ms |-> -1]     \* Invalid Date

IsNaN(x) == x.ms < 0

MsLastOfDay == 86399999     \* 23:59:59.999 as ms since midnight

IsLeap(y) == (y % 4 = 0 /\ y % 100 # 0) \/ y % 400 = 0

\* Days of month mo (0-based) of year y.
MonthLength(y, mo) ==
    IF mo = 1 THEN (IF IsLeap(y) THEN 29 ELSE 28)
    ELSE IF mo \in {3, 5, 8, 10} THEN 30 ELSE 31

RECURSIVE DaysBeforeMonth(_, _)
DaysBeforeMonth(y, mo) ==
    IF mo = 0 THEN 0 ELSE DaysBeforeMonth(y, mo - 1) + MonthLength(y, mo - 1)

\* Day number of a calendar day; 0001-01-01 is day 1, a Monday.
DayNum(y, mo, d) ==
    365 * (y - 1) + ((y - 1) \div 4) - ((y - 1) \div 100) + ((y - 1) \div 400)
        + DaysBeforeMonth(y, mo) + d

\* new Date(y, mo, d, 0, 0, 0, ms): month and day out of range carry over.
RECURSIVE MkDate(_, _, _, _)
MkDate(y, mo, d, ms) ==
    IF mo < 0 \/ mo > 11 THEN MkDate(y + (mo \div 12), mo % 12, d, ms)
    ELSE IF d < 1 THEN
        LET py == IF mo = 0 THEN y - 1 ELSE y
            pm == IF mo = 0 THEN 11 ELSE mo - 1
        IN  MkDate(py, pm, d + MonthLength(py, pm), ms)
    ELSE IF d > MonthLength(y, mo) THEN
        MkDate(y, mo + 1, d - MonthLength(y, mo), ms)
    ELSE [y |-> y, mo |-> mo, d |-> d, ms |-> ms]

\* Comparison of two Dates by time value; false when either is invalid.
DateLT(a, b) ==
    /\ ~IsNaN(a) /\ ~IsNaN(b)
    /\ LET da == DayNum(a.y, a.mo, a.d)
           db == DayNum(b.y, b.mo, b.d)
       IN  da < db \/ (da = db /\ a.ms < b.ms)

DateGT(a, b) == DateLT(b, a)

DateLE(a, b) == ~IsNaN(a) /\ ~IsNaN(b) /\ ~DateLT(b, a)

DateGE(a, b) == DateLE(b, a)

\* d.getDay(): 0 = Sunday .. 6 = Saturday.
getDay(d) == DayNum(d.y, d.mo, d.d) % 7

\* ------------------------------------------------------ calendar helpers
\* A date string is the tuple <<YYYY, MM, DD>> of its fields, the empty
\* string is <<>>.  parseISO reads the fields at local midnight; a month or
\* day that does not exist gives an Invalid Date.
parseISO(dateStr) ==
    IF /\ Len(dateStr) = 3
       /\ dateStr[2] \in 1..12
       /\ dateStr[3] \in 1..MonthLength(dateStr[1], dateStr[2] - 1)
    THEN MkDate(dateStr[1], dateStr[2] - 1, dateStr[3], 0)
    ELSE NaN

startOfMonth(d) == MkDate(d.y, d.mo, 1, 0)

\* Variant: the month's end taken as the next month's first midnight.
endOfMonth_nextFirst(d) == MkDate(d.y, d.mo + 1, 1, 0)

endOfMonth(d) == MkDate(d.y, d.mo + 1, 0, MsLastOfDay)

\* Variant: day 0 of the month itself, which is the month before's last day.
daysInMonth_prevMonth(year, monthIdx) == MkDate(year, monthIdx, 0, 0).d

daysInMonth(year, monthIdx) == MkDate(year, monthIdx + 1, 0, 0).d

\* Variant: a month taken as 31 days.
addMonths_days(d, n) == MkDate(d.y, d.mo, d.d + 31 * n, 0)

addMonths(d, n) == MkDate(d.y, d.mo + n, 1, 0)

\* Intl "fr" month + year: the month's ordinal in the year and the year.
formatMonthFR(d) == <<d.mo + 1, d.y>>

\* "fr-BE" 2-digit day and month: DD/MM, the year is dropped.
formatDDMM(d) == <<d.d, d.mo + 1>>

isWeekend(d) == LET dow == getDay(d) IN dow = 0 \/ dow = 6

\* The clipped interval as <<s, e>>, or <<>> for null.
clampIntervalToMonth(taskStart, taskEnd, monthStart, monthEnd) ==
    LET s == IF DateGT(taskStart, monthStart) THEN taskStart ELSE monthStart
        e == IF DateLT(taskEnd, monthEnd) THEN taskEnd ELSE monthEnd
    IN  IF DateLE(s, e) THEN <<s, e>> ELSE <<>>


\* ------------------------------------------------------------ the inputs
DefaultColor == "#7aa7ff"

D_2023_12_20 == <<2023, 12, 20>>
D_2023_12_31 == <<2023, 12, 31>>
D_2024_02_10 == <<2024, 2, 10>>
D_2024_02_29 == <<2024, 2, 29>>
D_2024_03_01 == <<2024, 3, 1>>
D_2024_03_05 == <<2024, 3, 5>>
D_Unparseable == <<2024, 13, 1>>

RawTask(l, s, e, c) == [label |-> l, start |-> s, end |-> e, color |-> c]

\* Well-formed tasks: one that spans January 2024 whole and ends on the
\* last day of a leap February, two single days on a month's last and first
\* day, one that starts after the first has started.
GoodTasks ==
    { RawTask("A", D_2023_12_20, D_2024_02_29, ""),
      RawTask("B", D_2023_12_31, D_2023_12_31, "#4caf50"),
      RawTask("C", D_2024_02_10, D_2024_03_05, ""),
      RawTask("D", D_2024_03_01, D_2024_03_01, "") }

\* Malformed tasks: start after end, no label, no end, unparseable start.
BadTasks ==
    { RawTask("E", D_2024_02_10, D_2023_12_31, ""),
      RawTask("", D_2023_12_20, D_2023_12_31, ""),
      RawTask("F", D_2024_02_10, <<>>, ""),
      RawTask("G", D_Unparseable, D_2024_03_05, "") }

TaskPool == GoodTasks \cup BadTasks

RECURSIVE SeqsUpTo(_, _)
SeqsUpTo(S, n) ==
    IF n = 0 THEN {<<>>}
    ELSE LET shorter == SeqsUpTo(S, n - 1)
         IN  shorter \cup {Append(q, x) : q \in shorter, x \in S}

\* The first argument: an array of tasks, or something that is no array.
TaskArgs ==
    {[isArray |-> FALSE, items |-> <<>>]}
        \cup {[isArray |-> TRUE, items |-> q] : q \in SeqsUpTo(TaskPool, MaxTasks)}

\* The second argument: a selector that matches an element or none, and the
\* two flags.
OptionArgs ==
    [container : {"#app", "#none"}, injectStyles : BOOLEAN, shadeWeekends : BOOLEAN]

\* ------------------------------------------------------------ the errors
NoError == [msg |-> "", index |-> <<>>, label |-> <<>>]

ErrContainer == [msg |-> "Container introuvable.", index |-> <<>>, label |-> <<>>]

ErrNoTasks == [msg |-> "Aucune tache fournie.", index |-> <<>>, label |-> <<>>]

\* Variant: the index counted from 1.
ErrTaskInvalid_oneBased(i) ==
    [msg |-> "Tache invalide a l'index ${i}. Requis: {label,start,end}.",
     index |-> <<i + 1>>, label |-> <<>>]

ErrTaskInvalid(i) ==
    [msg |-> "Tache invalide a l'index ${i}. Requis: {label,start,end}.",
     index |-> <<i>>, label |-> <<>>]

ErrDates(label) ==
    [msg |-> "Dates invalides pour ${t.label}. Format attendu YYYY-MM-DD et start <= end.",
     index |-> <<>>, label |-> <<label>>]

\* norm[0] of an empty array is undefined: reading .start throws.
ErrType == [msg |-> "TypeError", index |-> <<>>, label |-> <<>>]


\* ---------------------------------------------------------------- state
VARIABLES
    pc,             \* "idle", "loop" (in the month loop) or "done" (returned or thrown)
    tasks,          \* the call's first argument
    options,        \* the call's second argument
    norm,           \* the normalised tasks
    m,              \* the month loop's variable
    lastMonth,      \* the month loop's upper limit
    root,           \* the sections appended to the root element so far
    visited,        \* the months the loop has entered, as <<year, monthIdx>>
    err,            \* the error thrown, NoError if none
    headStyles,     \* style elements with id gantt-table-styles in document.head
    mountChildren,  \* roots appended to the container
    first           \* <<>> or the first call that returned, when it is kept

vars ==
    <<pc, tasks, options, norm, m, lastMonth, root, visited, err, headStyles,
      mountChildren, first>>

NoTasks == [isArray |-> FALSE, items |-> <<>>]

NoOptions == [container |-> "#none", injectStyles |-> FALSE, shadeWeekends |-> FALSE]

\* typeof container === "string" ? document.querySelector(container) : container
\* The document holds one element that "#app" selects.
mountFound(o) == o.container = "#app"

\* -------------------------------------------------------- normalisation
\* The check of one task in tasks.map; i is the 0-based array index.
taskError(t, i) ==
    IF t.label = "" \/ t.start = <<>> \/ t.end = <<>> THEN ErrTaskInvalid(i)
    ELSE LET s == parseISO(t.start)
             e == parseISO(t.end)
         IN  IF IsNaN(s) \/ IsNaN(e) \/ DateGT(s, e) THEN ErrDates(t.label)
             ELSE NoError

normTask(t) ==
    [label |-> t.label, start |-> parseISO(t.start), end |-> parseISO(t.end),
     color |-> IF t.color = "" THEN DefaultColor ELSE t.color]

\* tasks.map: stops at the first task that throws.
RECURSIVE normalize(_, _, _)
normalize(items, i, acc) ==
    IF i > Len(items) THEN [err |-> NoError, norm |-> acc]
    ELSE LET e == taskError(items[i], i - 1)
         IN  IF e # NoError THEN [err |-> e, norm |-> <<>>]
             ELSE normalize(items, i + 1, Append(acc, normTask(items[i])))

\* The loop over norm that keeps the earliest start and the latest end.
RECURSIVE globalBounds(_, _, _, _)
globalBounds(nrm, i, minStart, maxEnd) ==
    IF i > Len(nrm) THEN <<minStart, maxEnd>>
    ELSE globalBounds(nrm, i + 1,
            IF DateLT(nrm[i].start, minStart) THEN nrm[i].start ELSE minStart,
            IF DateGT(nrm[i].end, maxEnd) THEN nrm[i].end ELSE maxEnd)

\* Variant: the length is not looked at.
noTasks_arrayOnly(t) == ~t.isArray

\* !Array.isArray(tasks) || tasks.length === 0
noTasks(t) == ~t.isArray \/ Len(t.items) = 0

\* The function up to the month loop: the error thrown if any, else the
\* normalised tasks and the loop's two limits.
entry(t, o) ==
    LET failed(e) == [err |-> e, norm |-> <<>>, firstMonth |-> NaN, lastMonth |-> NaN]
    IN  IF ~mountFound(o) THEN failed(ErrContainer)
        ELSE IF noTasks(t) THEN failed(ErrNoTasks)
        ELSE LET n == normalize(t.items, 1, <<>>)
             IN  IF n.err # NoError THEN failed(n.err)
                 ELSE IF Len(n.norm) = 0 THEN failed(ErrType)
                 ELSE LET b == globalBounds(n.norm, 1, n.norm[1].start, n.norm[1].end)
                      IN  [err |-> NoError, norm |-> n.norm,
                           firstMonth |-> startOfMonth(b[1]),
                           lastMonth |-> startOfMonth(b[2])]

\* Variant: no look for an element already there.
injectDefaultStyles_noGuard(hs) == hs + 1

\* if (document.getElementById("gantt-table-styles")) return; else append one.
injectDefaultStyles(hs) == IF hs > 0 THEN hs ELSE hs + 1

\* Variant: injection ahead of the checks.
stylesAfterEntry_early(o, e, hs) ==
    IF o.injectStyles THEN injectDefaultStyles(hs) ELSE hs

\* The style elements after the function's entry e: injection comes after
\* every throw.
stylesAfterEntry(o, e, hs) ==
    IF e.err = NoError /\ o.injectStyles THEN injectDefaultStyles(hs) ELSE hs


\* ------------------------------------------------------- one month's table
\* Variant: the class given only while the style sheet is in the document.
weekendClass_styled(shadeWeekends, cur) ==
    shadeWeekends /\ isWeekend(cur) /\ headStyles > 0

\* class "gt-we" on a day's cell
weekendClass(shadeWeekends, cur) == shadeWeekends /\ isWeekend(cur)

\* The two header rows: per day its class and its day-of-week label.
theadCells(monthStart, dim, shadeWeekends) ==
    [d \in 1..dim |->
        LET cur == MkDate(monthStart.y, monthStart.mo, d, 0)
        IN  [we |-> weekendClass(shadeWeekends, cur), dow |-> getDay(cur)]]

\* cur >= the day of segStart && cur <= the day of segEnd
inRange(cur, segStart, segEnd) ==
    /\ DateGE(cur, MkDate(segStart.y, segStart.mo, segStart.d, 0))
    /\ DateLE(cur, MkDate(segEnd.y, segEnd.mo, segEnd.d, 0))

\* The row of task t, the i-th of norm, clipped to <<segStart, segEnd>>.
taskRow(t, i, monthStart, dim, clipped, shadeWeekends) ==
    [task |-> i,
     label |-> t.label, from |-> formatDDMM(t.start), to |-> formatDDMM(t.end),
     color |-> t.color,
     cells |-> [d \in 1..dim |->
        LET cur == MkDate(monthStart.y, monthStart.mo, d, 0)
        IN  [we |-> weekendClass(shadeWeekends, cur),
             bar |-> inRange(cur, clipped[1], clipped[2])]]]

\* Variant: the row put first.
appendRow_prepend(tbody, tr) == <<tr>> \o tbody

\* tbody.appendChild(tr)
appendRow(tbody, tr) == Append(tbody, tr)

\* for (const t of norm): the rows of the tasks that intersect the month.
RECURSIVE taskRows(_, _, _, _, _, _, _)
taskRows(nrm, i, monthStart, monthEnd, dim, shadeWeekends, tbody) ==
    IF i > Len(nrm) THEN tbody
    ELSE LET clipped == clampIntervalToMonth(nrm[i].start, nrm[i].end, monthStart, monthEnd)
         IN  taskRows(nrm, i + 1, monthStart, monthEnd, dim, shadeWeekends,
                IF clipped = <<>> THEN tbody
                ELSE appendRow(tbody,
                        taskRow(nrm[i], i, monthStart, dim, clipped, shadeWeekends)))

\* The section built by one pass of the month loop.
monthSection(mm, nrm, shadeWeekends) ==
    LET monthStart == startOfMonth(mm)
        monthEnd == endOfMonth(mm)
        dim == daysInMonth(monthStart.y, monthStart.mo)
    IN  [heading |-> formatMonthFR(monthStart),
         days |-> dim,
         thead |-> theadCells(monthStart, dim, shadeWeekends),
         rows |-> taskRows(nrm, 1, monthStart, monthEnd, dim, shadeWeekends, <<>>)]

\* Variant: the section appended whatever it holds.
emitSection_always(rt, section) == Append(rt, section)

\* if (tbody.children.length > 0) root.appendChild(section)
emitSection(rt, section) ==
    IF Len(section.rows) > 0 THEN Append(rt, section) ELSE rt

\* -------------------------------------------------------------- actions
Init ==
    /\ pc = "idle"
    /\ tasks = NoTasks
    /\ options = NoOptions
    /\ norm = <<>>
    /\ m = NaN
    /\ lastMonth = NaN
    /\ root = <<>>
    /\ visited = <<>>
    /\ err = NoError
    /\ headStyles = 0
    /\ mountChildren = 0
    /\ first = <<>>

\* renderGanttAsTables(t, o) up to the month loop, or to its throw.
renderGanttAsTables(t, o) ==
    /\ pc = "idle"
    /\ mountChildren < MaxMounted
    /\ LET e == entry(t, o)
       IN  /\ tasks' = t
           /\ options' = o
           /\ err' = e.err
           /\ norm' = e.norm
           /\ m' = e.firstMonth
           /\ lastMonth' = e.lastMonth
           /\ headStyles' = stylesAfterEntry(o, e, headStyles)
           /\ pc' = IF e.err = NoError THEN "loop" ELSE "done"
    /\ root' = <<>>
    /\ visited' = <<>>
    /\ UNCHANGED <<mountChildren, first>>

\* One pass of the month loop: m <= lastMonth, the body, m = addMonths(m, 1).
monthLoop ==
    /\ pc = "loop"
    /\ DateLE(m, lastMonth)
    /\ root' = emitSection(root, monthSection(m, norm, options.shadeWeekends))
    /\ visited' = Append(visited, <<m.y, m.mo>>)
    /\ m' = addMonths(m, 1)
    /\ UNCHANGED <<pc, tasks, options, norm, lastMonth, err, headStyles,
                   mountChildren, first>>

\* The loop's exit: mount.appendChild(root); return root.
mountRoot ==
    /\ pc = "loop"
    /\ ~DateLE(m, lastMonth)
    /\ mountChildren' = mountChildren + 1
    /\ pc' = "done"
    /\ UNCHANGED <<tasks, options, norm, m, lastMonth, root, visited, err,
                   headStyles, first>>

\* The caller goes on: the call's arguments, locals and result are dropped.
dropCall ==
    /\ tasks' = NoTasks
    /\ options' = NoOptions
    /\ norm' = <<>>
    /\ m' = NaN
    /\ lastMonth' = NaN
    /\ root' = <<>>
    /\ visited' = <<>>
    /\ err' = NoError
    /\ pc' = "idle"
    /\ UNCHANGED <<headStyles, mountChildren>>

return ==
    /\ pc = "done"
    /\ dropCall
    /\ UNCHANGED first

Next ==
    \/ \E t \in TaskArgs, o \in OptionArgs : renderGanttAsTables(t, o)
    \/ monthLoop
    \/ mountRoot
    \/ return

Spec == Init /\ [][Next]_vars

\* ------------------------------------------- the same call, made again
\* Calls made between the first call and its repetition: one that injects
\* the style sheet, one that does not, one that throws.
OtherCalls ==
    { <<[isArray |-> TRUE, items |-> <<RawTask("D", D_2024_03_01, D_2024_03_01, "")>>],
        [container |-> "#app", injectStyles |-> TRUE, shadeWeekends |-> TRUE]>>,
      <<[isArray |-> TRUE, items |-> <<RawTask("B", D_2023_12_31, D_2023_12_31, "#4caf50")>>],
        [container |-> "#app", injectStyles |-> FALSE, shadeWeekends |-> FALSE]>>,
      <<[isArray |-> TRUE, items |-> <<RawTask("E", D_2024_02_10, D_2023_12_31, "")>>],
        [container |-> "#app", injectStyles |-> TRUE, shadeWeekends |-> TRUE]>> }

\* The first call that returns is kept, with its result.
returnKeep ==
    /\ pc = "done"
    /\ dropCall
    /\ first' = IF first = <<>> /\ err = NoError
                THEN <<[tasks |-> tasks, options |-> options, root |-> root]>>
                ELSE first

callFirst ==
    /\ first = <<>>
    /\ \E t \in TaskArgs, o \in OptionArgs : renderGanttAsTables(t, o)

callAgain ==
    /\ first # <<>>
    /\ renderGanttAsTables(first[1].tasks, first[1].options)

callOther ==
    /\ first # <<>>
    /\ \E c \in OtherCalls : renderGanttAsTables(c[1], c[2])

NextTwice ==
    \/ callFirst
    \/ callAgain
    \/ callOther
    \/ monthLoop
    \/ mountRoot
    \/ returnKeep

SpecTwice == Init /\ [][NextTwice]_vars


\* ------------------------------------------- what the claims speak about
\* These read the caller's arguments, not the normalised tasks.
Items == tasks.items

Returned == pc = "done" /\ err = NoError

InCall == pc \in {"loop", "done"} /\ err = NoError

\* The day number of the day a well-formed date string names.
IsoDay(str) == DayNum(str[1], str[2] - 1, str[3])

\* A date string's month, counted from year 0.
IsoMonth(str) == str[1] * 12 + str[2] - 1

MonthNo(ym) == ym[1] * 12 + ym[2]

\* The <<year, monthIdx>> a section's heading names.
SectionMonth(section) == <<section.heading[2], section.heading[1] - 1>>

Min(S) == CHOOSE x \in S : \A z \in S : x <= z

Max(S) == CHOOSE x \in S : \A z \in S : x >= z

\* The calendar days from task i's start to its end, as <<y, monthIdx, d>>.
TaskDays(i) ==
    { ymd \in (Items[i].start[1] .. Items[i].end[1]) \X (0..11) \X (1..31) :
        /\ ymd[3] <= MonthLength(ymd[1], ymd[2])
        /\ IsoDay(Items[i].start) <= DayNum(ymd[1], ymd[2], ymd[3])
        /\ DayNum(ymd[1], ymd[2], ymd[3]) <= IsoDay(Items[i].end) }

\* Task i's interval and the month ym have a day in common.
Intersects(i, ym) ==
    /\ IsoDay(Items[i].start) <= DayNum(ym[1], ym[2], MonthLength(ym[1], ym[2]))
    /\ DayNum(ym[1], ym[2], 1) <= IsoDay(Items[i].end)

\* The cells with a bar in task i's rows: <<section, row, day>>.
Bars(i) ==
    { srd \in (1..Len(root)) \X (1..Len(Items)) \X (1..31) :
        /\ srd[2] <= Len(root[srd[1]].rows)
        /\ root[srd[1]].rows[srd[2]].task = i
        /\ srd[3] <= Len(root[srd[1]].rows[srd[2]].cells)
        /\ root[srd[1]].rows[srd[2]].cells[srd[3]].bar }

BarDay(srd) ==
    <<SectionMonth(root[srd[1]])[1], SectionMonth(root[srd[1]])[2], srd[3]>>

\* The rows task i has in the section of month ym.
RowsOf(i, ym) ==
    { sr \in (1..Len(root)) \X (1..Len(Items)) :
        /\ SectionMonth(root[sr[1]]) = ym
        /\ sr[2] <= Len(root[sr[1]].rows)
        /\ root[sr[1]].rows[sr[2]].task = i }

\* C1: when the call returns, the days marked occupied for each task over
\* all emitted sections are exactly the days from its start to its end, and
\* no day is marked twice.
C1_OccupiedDaysAreTheInterval ==
    Returned =>
        \A i \in 1..Len(Items) :
            /\ {BarDay(srd) : srd \in Bars(i)} = TaskDays(i)
            /\ Cardinality(Bars(i)) = Cardinality(TaskDays(i))

\* A task that runs over a month's end and a year's end has been rendered.
C1_Witness ==
    /\ Returned
    /\ \E i \in 1..Len(Items) :
        /\ Items[i].start[1] < Items[i].end[1]
        /\ Cardinality(Bars(i)) > 31


\* The months from the month of the earliest start to the month of the
\* latest end, in order.
MonthsSpanned ==
    LET lo == Min({IsoMonth(Items[i].start) : i \in 1..Len(Items)})
        hi == Max({IsoMonth(Items[i].end) : i \in 1..Len(Items)})
    IN  [k \in 1..(hi - lo + 1) |-> <<(lo + k - 1) \div 12, (lo + k - 1) % 12>>]

\* Task i has, in the section of month ym, a row with a bar on every day.
FullRow(i, ym) ==
    \E sr \in RowsOf(i, ym) :
        LET cells == root[sr[1]].rows[sr[2]].cells
        IN  /\ Len(cells) = MonthLength(ym[1], ym[2])
            /\ \A d \in 1..Len(cells) : cells[d].bar

\* The months strictly between task i's first and last month.
InnerMonths(i) ==
    { k \in 1..Len(MonthsSpanned) :
        /\ IsoMonth(Items[i].start) < MonthNo(MonthsSpanned[k])
        /\ MonthNo(MonthsSpanned[k]) < IsoMonth(Items[i].end) }

\* C2: the month loop enters the months from the month of the earliest
\* start to the month of the latest end one after the other, each once, and
\* has entered all of them when the call returns; a month that lies inside
\* a task's interval without holding its start or end gets a section in
\* which the task is occupied on every day.
C2_EveryMonthVisitedInOrder ==
    InCall =>
        /\ Len(visited) <= Len(MonthsSpanned)
        /\ visited = SubSeq(MonthsSpanned, 1, Len(visited))
        /\ Returned =>
            /\ visited = MonthsSpanned
            /\ \A i \in 1..Len(Items) :
                \A k \in InnerMonths(i) : FullRow(i, MonthsSpanned[k])

\* The loop has stepped from December into January, and a task has a month
\* that holds neither its start nor its end.
C2_Witness ==
    /\ Returned
    /\ \E k \in 1..(Len(visited) - 1) :
        visited[k][2] = 11 /\ visited[k + 1] = <<visited[k][1] + 1, 0>>
    /\ \E i \in 1..Len(Items) : InnerMonths(i) # {}

\* C3: no emitted section is without rows, the sections stand in the order
\* of their months, and a month the loop has entered has a section exactly
\* when some task intersects it.
C3_NoEmptySection ==
    InCall =>
        /\ \A s \in 1..Len(root) : Len(root[s].rows) > 0
        /\ \A s \in 1..(Len(root) - 1) :
            MonthNo(SectionMonth(root[s])) < MonthNo(SectionMonth(root[s + 1]))
        /\ \A k \in 1..Len(visited) :
            (\E s \in 1..Len(root) : SectionMonth(root[s]) = visited[k])
                <=> (\E i \in 1..Len(Items) : Intersects(i, visited[k]))
        /\ \A s \in 1..Len(root) :
            \E k \in 1..Len(visited) : SectionMonth(root[s]) = visited[k]

\* The call has returned and a month between two tasks was left out.
C3_Witness ==
    /\ Returned
    /\ Len(root) > 0
    /\ \E k \in 1..Len(visited) :
        \A s \in 1..Len(root) : SectionMonth(root[s]) # visited[k]

\* C4: in every section the rows stand in the order of the caller's list,
\* each row showing the label and dates of the task it was made for.
C4_RowsInInputOrder ==
    InCall =>
        \A s \in 1..Len(root) :
            LET rows == root[s].rows
            IN  /\ \A r \in 1..(Len(rows) - 1) : rows[r].task < rows[r + 1].task
                /\ \A r \in 1..Len(rows) :
                    /\ rows[r].task \in 1..Len(Items)
                    /\ rows[r].label = Items[rows[r].task].label
                    /\ rows[r].from = <<Items[rows[r].task].start[3],
                                        Items[rows[r].task].start[2]>>
                    /\ rows[r].to = <<Items[rows[r].task].end[3],
                                      Items[rows[r].task].end[2]>>

\* A section holds two rows of which the upper task starts later.
C4_Witness ==
    /\ Returned
    /\ \E s \in 1..Len(root) :
        /\ Len(root[s].rows) = 2
        /\ IsoDay(Items[root[s].rows[1].task].start)
            > IsoDay(Items[root[s].rows[2].task].start)


\* A date string that names a day of the calendar.
IsoValid(str) ==
    /\ Len(str) = 3
    /\ str[2] \in 1..12
    /\ str[3] >= 1
    /\ str[3] <= MonthLength(str[1], str[2] - 1)

\* YYYYMMDD as a number: orders well-formed date strings.
IsoKey(str) == str[1] * 10000 + str[2] * 100 + str[3]

MissingField(t) == t.label = "" \/ t.start = <<>> \/ t.end = <<>>

BadDates(t) ==
    /\ ~MissingField(t)
    /\ \/ ~IsoValid(t.start)
       \/ ~IsoValid(t.end)
       \/ IsoKey(t.start) > IsoKey(t.end)

MalformedAt == {i \in 1..Len(Items) : MissingField(Items[i]) \/ BadDates(Items[i])}

\* A call that got past the container check and the empty-list check.
TasksGiven == pc = "done" /\ options.container = "#app" /\ tasks.isArray /\ Len(Items) > 0

ValidationMessages == {ErrTaskInvalid(0).msg, ErrDates("").msg}

C7_NoPartialOutputOnError ==
    [][(pc' = "done" /\ err' # NoError) =>
        /\ headStyles' = headStyles
        /\ mountChildren' = mountChildren
        /\ root' = <<>> /\ visited' = <<>> /\ norm' = <<>>]_vars

\* A call asking for the style sheet has thrown on its second task while
\* the document holds no style sheet.
C7_Witness ==
    /\ pc = "done"
    /\ err # NoError
    /\ Len(Items) = 2 /\ MalformedAt = {2}
    /\ options.injectStyles
    /\ headStyles = 0

DaysIn(i, ym) ==
    { d \in 1..MonthLength(ym[1], ym[2]) :
        /\ IsoDay(Items[i].start) <= DayNum(ym[1], ym[2], d)
        /\ DayNum(ym[1], ym[2], d) <= IsoDay(Items[i].end) }

\* C9: in a month the loop has entered a task has a row exactly when its
\* interval and the month have a day in common, and then one row, with bars
\* on the common days only; so a task that ends on a month's last day is
\* occupied on that day and has no row in the next month, and a task of one
\* day has one bar in one section.
C9_RowIffIntersects ==
    InCall =>
        \A k \in 1..Len(visited) : \A i \in 1..Len(Items) :
            /\ (RowsOf(i, visited[k]) # {}) <=> (DaysIn(i, visited[k]) # {})
            /\ Cardinality(RowsOf(i, visited[k])) <= 1
            /\ \A sr \in RowsOf(i, visited[k]) :
                LET cells == root[sr[1]].rows[sr[2]].cells
                IN  {d \in 1..Len(cells) : cells[d].bar} = DaysIn(i, visited[k])

\* A task ends on the last day of a month, has its bar there and no row in
\* the month after, which has a section.
C9_Witness ==
    /\ Returned
    /\ \E i \in 1..Len(Items) : \E k \in 1..(Len(visited) - 1) :
        /\ IsoMonth(Items[i].end) = MonthNo(visited[k])
        /\ Items[i].end[3] = MonthLength(visited[k][1], visited[k][2])
        /\ \E sr \in RowsOf(i, visited[k]) :
            root[sr[1]].rows[sr[2]].cells[Items[i].end[3]].bar
        /\ RowsOf(i, visited[k + 1]) = {}
        /\ \E s \in 1..Len(root) : SectionMonth(root[s]) = visited[k + 1]

\* C10: the document never holds more than one style element; the element
\* is added by the first call that gets past validation with injectStyles
\* set, and no later step adds or removes one.
C10_StyleInjectedOnce ==
    [][/\ headStyles' <= 1
       /\ headStyles = 1 => headStyles' = 1
       /\ (pc = "idle" /\ pc' = "loop" /\ options'.injectStyles) => headStyles' = 1
       /\ headStyles' # headStyles =>
            (headStyles = 0 /\ pc = "idle" /\ pc' = "loop" /\ options'.injectStyles)]_vars

\* A second call with injectStyles set has returned.
C10_Witness ==
    /\ pc = "done" /\ err = NoError
    /\ options.injectStyles
    /\ headStyles = 1
    /\ mountChildren >= 2

====
